---- MODULE Spec2Model ----
(***************************************************************************)
(* Model of checkpoint_bench: the benchmark driver of                      *)
(* checkpoint_client.py (DLIOCheckpointRPCClient and main) composed with   *)
(* the coordinator of checkpoint_server.py (DLIOCheckpointRPCServer and    *)
(* main) running on a group of MPI ranks.                                  *)
(***************************************************************************)
EXTENDS Integers, Sequences, FiniteSets, TLC

\* ---------------------------------------------------------------- bounds
MaxSteps == 3        \* --num-steps ranges over 0..MaxSteps
MaxPasses == 2       \* --num-passes ranges over 0..MaxPasses
MaxRanks == 2        \* the process group has 1..MaxRanks ranks
MaxOtherCalls == 2   \* calls a second XML-RPC client may issue
MaxRaises == 2       \* checkpoint-mechanism calls that may raise

\* ------------------------------------------------------ iostat text model
\* A line of the sampler's stdout is a sequence of symbols: DEV is the
\* literal text "Device", X any run of other non-blank characters, SP a
\* blank.  A token (an element of line.split()) is a sequence of symbols.
DEV == "Device"
X == "x"
SP == " "
NONE == << <<"None">> >>   \* Python's None standing where a row is expected

\* lines iostat -dx prints: the system banner, a device header, a data row
Banner == <<X, SP, X, SP, X>>
DeviceHeader == <<DEV, SP, X>>
DataRow == <<X, SP, X>>

\* every stdout the sampling process may have produced when it is reaped:
\* nothing (the tool ended at once, as for --iostat-interval -1), one report,
\* two reports, and a report cut before its first data row
IostatOutputs ==
  { <<>>,
    <<Banner, <<>>, DeviceHeader, DataRow, <<>> >>,
    <<Banner, <<>>, DeviceHeader, DataRow, <<>>, DeviceHeader, DataRow, <<>> >>,
    <<Banner, <<>> >> }

\* str.startswith("Device")
startswith_Device(line) == Len(line) > 0 /\ line[1] = DEV

\* str.split(): maximal runs of non-blank symbols, in order
RECURSIVE split_from(_, _, _)
split_from(line, i, cur) ==
  IF i > Len(line)
  THEN IF cur = <<>> THEN <<>> ELSE <<cur>>
  ELSE IF line[i] = SP
       THEN IF cur = <<>> THEN split_from(line, i + 1, <<>>)
            ELSE <<cur>> \o split_from(line, i + 1, <<>>)
       ELSE split_from(line, i + 1, Append(cur, line[i]))

split(line) == split_from(line, 1, <<>>)

\* the loop of stop_iostat_subprocess over result_lines: acc is
\* [header, tuples] with header = NONE until the first Device line
RECURSIVE parse_lines(_, _, _)
parse_lines(lines, i, acc) ==
  IF i > Len(lines) THEN acc
  ELSE LET line == lines[i]
       IN  IF line = <<>> THEN parse_lines(lines, i + 1, acc)
           ELSE IF startswith_Device(line)
                THEN parse_lines(lines, i + 1,
                       [acc EXCEPT !.header =
                          IF acc.header = NONE THEN split(line) ELSE @])
                ELSE parse_lines(lines, i + 1,
                       [acc EXCEPT !.tuples = Append(@, split(line))])

\* iostat_csv_tuples after insert(0, iostat_csv_header)
iostat_csv_tuples(lines) ==
  LET acc == parse_lines(lines, 1, [header |-> NONE, tuples |-> <<>>])
  IN  <<acc.header>> \o acc.tuples

\* csv.writer.writerows stops with _csv.Error at a row that is None
RECURSIVE rows_before_None(_, _)
rows_before_None(rows, i) ==
  IF i > Len(rows) \/ rows[i] = NONE THEN <<>>
  ELSE <<rows[i]>> \o rows_before_None(rows, i + 1)

writerows_raises(rows) == \E i \in 1..Len(rows) : rows[i] = NONE

\* write_iostat_results_to_csv: open(..., 'w') creates or truncates the
\* file, then the rows are written one by one
write_iostat_results_to_csv(csv_tuples) ==
  [exists |-> TRUE, rows |-> rows_before_None(csv_tuples, 1)]

\* write_result_csv: open(..., 'w') creates or truncates the file; the
\* header comes from checkpoint_result_dicts[0], an IndexError on an empty
\* list; then one row per record
write_result_csv_raises(dicts) == Len(dicts) = 0

write_result_csv(dicts) ==
  [exists |-> TRUE, header |-> Len(dicts) > 0, rows |-> dicts]

NoFile == [exists |-> FALSE, rows |-> <<>>]
NoResultsFile == [exists |-> FALSE, header |-> FALSE, rows |-> <<>>]

\* ----------------------------------------------------------------- state
VARIABLES
  \* BenchmarkConfig (argparse values handed to DLIOCheckpointRPCClient)
  server_ip, num_steps, num_passes, collect_iostat,
  \* driver process
  dpc,                     \* position of the driver in __main__ and main
  pass_num, step,          \* loop variables of do_passes / do_checkpoint_pass
  checkpoint_result_dicts, \* the result log
  iostat_process,          \* 0 for None, else an index into procs
  procs,                   \* every sampling process ever started
  atexit_registered,       \* atexit.register(self.teardown) has run
  exit_cause,              \* "none", "normal", "error", "interrupt" or
                           \* "invalid" (validate_args called exit(1))
  results_csv, iostat_csv, \* the two tables on disk
  teardown_log,            \* one entry per execution of teardown()
  rpc_issued,              \* remote calls the driver has issued
  sleeps,                  \* time.sleep calls that have returned
  \* XML-RPC transport
  pending,                 \* requests waiting in the server's listen queue
  reply,                   \* per client: the response on its way back
  other_calls,             \* calls the second client has issued
  \* coordinator group
  comm_size,               \* comm.size
  rank_pc, rank_step,      \* per rank: position in do_checkpoint, its step
  entered,                 \* per rank: Barrier() calls entered so far
  bcast_values,            \* values rank 0 has broadcast, in order
  bcast_read,              \* per rank: broadcasts received so far
  checkpoint_times,        \* per rank: the elapsed times it has recorded
  serving,                 \* the request rank 0 is handling, or NoRequest
  raises,                  \* checkpoint calls that raised so far
  cycle_calls,             \* per rank: checkpoint() invocations since the
                           \* request being served was received
  last_bcast,              \* the last broadcast: whether every rank had
                           \* arrived at the Barrier of line 126 of the
                           \* calls before it when it started
  last_reply               \* the last response sent, with cycle_calls

driver_vars == <<server_ip, num_steps, num_passes, collect_iostat, dpc, pass_num, step,
                 checkpoint_result_dicts, iostat_process, procs,
                 atexit_registered, exit_cause, results_csv, iostat_csv,
                 teardown_log, rpc_issued, sleeps>>
net_vars == <<pending, reply, other_calls>>
server_vars == <<comm_size, rank_pc, rank_step, entered, bcast_values,
                 bcast_read, checkpoint_times, serving,
                 raises, cycle_calls, last_bcast, last_reply>>
vars == <<driver_vars, net_vars, server_vars>>

Clients == {"driver", "other"}
NoReply == [kind |-> "none"]
NoRequest == [client |-> "nobody", step |-> 0]
Ranks == 0..(comm_size - 1)
OtherSteps == {5}
LOCALHOST == "127.0.0.1"
ServerIps == {LOCALHOST, "10.0.0.2"}   \* values of --server-ip

\* -------------------------------------------------------- driver: helpers
\* start_iostat_subprocess: Popen of a new sampler; the handle is overwritten
start_iostat_subprocess(ps) == Append(ps, [state |-> "running", out |-> <<>>])

\* what communicate() returns for the process behind iostat_process: any
\* output when the process is reaped now, the same bytes again afterwards
communicate_outputs ==
  IF iostat_process = 0 THEN { <<>> }
  ELSE IF procs[iostat_process].state = "running" THEN IostatOutputs
       ELSE { procs[iostat_process].out }

\* stop_iostat_subprocess on output out: the process is signalled and reaped,
\* the table is written; raised when writerows met the None header
stop_iostat_subprocess(out) ==
  LET csv_tuples == iostat_csv_tuples(out)
  IN  [procs |-> [procs EXCEPT ![iostat_process] =
                    [state |-> "exited", out |-> out]],
       iostat_csv |-> write_iostat_results_to_csv(csv_tuples),
       raised |-> writerows_raises(csv_tuples)]

\* teardown(): stop the sampler if there is a handle, then write the results
teardown(out) ==
  LET stopping == iostat_process # 0
      stopped == stop_iostat_subprocess(out)
      stop_raised == stopping /\ stopped.raised
      write_raised == ~stop_raised /\ write_result_csv_raises(checkpoint_result_dicts)
  IN  [procs |-> IF stopping THEN stopped.procs ELSE procs,
       iostat_csv |-> IF stopping THEN stopped.iostat_csv ELSE iostat_csv,
       results_csv |-> IF stop_raised THEN results_csv
                       ELSE write_result_csv(checkpoint_result_dicts),
       raised |-> stop_raised \/ write_raised,
       entry |-> [log_len |-> Len(checkpoint_result_dicts),
                  stopped |-> stopping,
                  stop_raised |-> stop_raised,
                  write_attempted |-> ~stop_raised,
                  write_raised |-> write_raised]]

\* -------------------------------------------------------- driver: actions
\* validate_args with the address test dropped: nothing is rejected
err_msgs_never == <<>>

\* err_msgs of validate_args (lines 40-42)
err_msgs ==
  IF collect_iostat /\ server_ip # LOCALHOST
  THEN <<"Collecting I/O statistics with iostat requires running the server on the same machine.">>
  ELSE <<>>

\* validate_args(args) in __main__, before main: exit(1) when there is a
\* message; no exit hook is registered yet, so the process ends here
validate_args ==
  /\ dpc = "validate"
  /\ IF err_msgs # <<>>
     THEN dpc' = "rejected" /\ exit_cause' = "invalid"
     ELSE dpc' = "setup" /\ UNCHANGED exit_cause
  /\ UNCHANGED <<server_ip, num_steps, num_passes, collect_iostat, pass_num,
                 step, checkpoint_result_dicts, iostat_process, procs,
                 atexit_registered, results_csv, iostat_csv, teardown_log,
                 rpc_issued, sleeps, net_vars, server_vars>>

\* client.setup()
setup ==
  /\ dpc = "setup"
  /\ procs' = IF collect_iostat THEN start_iostat_subprocess(procs) ELSE procs
  /\ iostat_process' = IF collect_iostat THEN Len(procs') ELSE iostat_process
  /\ atexit_registered' = TRUE
  /\ dpc' = "do_passes"
  /\ UNCHANGED <<server_ip, num_steps, num_passes, collect_iostat, pass_num, step,
                 checkpoint_result_dicts, exit_cause, results_csv, iostat_csv,
                 teardown_log, rpc_issued, sleeps, net_vars, server_vars>>

\* do_passes, up to the first iteration of its loop
do_passes_begin ==
  /\ dpc = "do_passes"
  /\ procs' = IF collect_iostat THEN start_iostat_subprocess(procs) ELSE procs
  /\ iostat_process' = IF collect_iostat THEN Len(procs') ELSE iostat_process
  /\ pass_num' = 1
  /\ step' = 1
  /\ dpc' = "loop"
  /\ UNCHANGED <<server_ip, num_steps, num_passes, collect_iostat,
                 checkpoint_result_dicts, atexit_registered, exit_cause,
                 results_csv, iostat_csv, teardown_log, rpc_issued, sleeps,
                 net_vars, server_vars>>

\* do_checkpoint(step, pass_num): the remote call is sent
do_checkpoint_call ==
  /\ dpc = "loop"
  /\ pass_num <= num_passes
  /\ step <= num_steps
  /\ pending' = pending \cup {[client |-> "driver", step |-> step]}
  /\ rpc_issued' = rpc_issued + 1
  /\ dpc' = "rpc"
  /\ UNCHANGED <<server_ip, num_steps, num_passes, collect_iostat, pass_num, step,
                 checkpoint_result_dicts, iostat_process, procs,
                 atexit_registered, exit_cause, results_csv, iostat_csv,
                 teardown_log, sleeps, reply, other_calls, server_vars>>

augmented_pass_total(result) ==
  [checkpoint_time |-> result.checkpoint_time,
   comm_size |-> result.comm_size,
   step |-> step,
   pass_num |-> num_passes,
   num_steps |-> num_steps,
   num_passes |-> num_passes]

\* the record the driver appends for a reply (lines 132-135)
augmented(result) ==
  [checkpoint_time |-> result.checkpoint_time,
   comm_size |-> result.comm_size,
   step |-> step,
   pass_num |-> pass_num,
   num_steps |-> num_steps,
   num_passes |-> num_passes]

insert_result_first(dicts, result) == <<result>> \o dicts

\* checkpoint_result_dicts.append(result) (line 137)
append_result(dicts, result) == Append(dicts, result)

\* do_checkpoint_pass without line 143: the reply is recorded and the loop
\* goes on to the next step at once
do_checkpoint_return_unpaced ==
  /\ dpc = "rpc"
  /\ reply["driver"].kind = "record"
  /\ checkpoint_result_dicts' =
       append_result(checkpoint_result_dicts, augmented(reply["driver"]))
  /\ reply' = [reply EXCEPT !["driver"] = NoReply]
  /\ step' = step + 1
  /\ dpc' = "loop"
  /\ UNCHANGED <<server_ip, num_steps, num_passes, collect_iostat, pass_num,
                 iostat_process, procs, atexit_registered, exit_cause,
                 results_csv, iostat_csv, teardown_log, rpc_issued, sleeps,
                 pending, other_calls, server_vars>>

\* do_checkpoint(step, pass_num): the reply arrives and is recorded
do_checkpoint_return ==
  /\ dpc = "rpc"
  /\ reply["driver"].kind = "record"
  /\ checkpoint_result_dicts' =
       append_result(checkpoint_result_dicts, augmented(reply["driver"]))
  /\ reply' = [reply EXCEPT !["driver"] = NoReply]
  /\ dpc' = "sleep"
  /\ UNCHANGED <<server_ip, num_steps, num_passes, collect_iostat, pass_num, step,
                 iostat_process, procs, atexit_registered, exit_cause,
                 results_csv, iostat_csv, teardown_log, rpc_issued, sleeps,
                 pending, other_calls, server_vars>>

\* the remote call raises xmlrpc.client.Fault, the server's exception;
\* nothing in main catches it
do_checkpoint_fault ==
  /\ dpc = "rpc"
  /\ reply["driver"].kind = "fault"
  /\ reply' = [reply EXCEPT !["driver"] = NoReply]
  /\ dpc' = "exit"
  /\ exit_cause' = "error"
  /\ UNCHANGED <<server_ip, num_steps, num_passes, collect_iostat, pass_num, step,
                 checkpoint_result_dicts, iostat_process, procs,
                 atexit_registered, results_csv, iostat_csv, teardown_log,
                 rpc_issued, sleeps, pending, other_calls, server_vars>>

\* the remote call raises a transport error (connection refused or lost)
do_checkpoint_oserror ==
  /\ dpc = "rpc"
  /\ reply["driver"].kind = "none"
  /\ dpc' = "exit"
  /\ exit_cause' = "error"
  /\ UNCHANGED <<server_ip, num_steps, num_passes, collect_iostat, pass_num, step,
                 checkpoint_result_dicts, iostat_process, procs,
                 atexit_registered, results_csv, iostat_csv, teardown_log,
                 rpc_issued, sleeps, net_vars, server_vars>>

\* time.sleep(inter_checkpoint_sleep), then the next step of the pass
sleep ==
  /\ dpc = "sleep"
  /\ sleeps' = sleeps + 1
  /\ step' = step + 1
  /\ dpc' = "loop"
  /\ UNCHANGED <<server_ip, num_steps, num_passes, collect_iostat, pass_num,
                 checkpoint_result_dicts, iostat_process, procs,
                 atexit_registered, exit_cause, results_csv, iostat_csv,
                 teardown_log, rpc_issued, net_vars, server_vars>>

\* do_checkpoint_pass returns: the next pass starts at step 1
next_pass ==
  /\ dpc = "loop"
  /\ pass_num <= num_passes
  /\ step > num_steps
  /\ pass_num' = pass_num + 1
  /\ step' = 1
  /\ UNCHANGED <<server_ip, num_steps, num_passes, collect_iostat, dpc,
                 checkpoint_result_dicts, iostat_process, procs,
                 atexit_registered, exit_cause, results_csv, iostat_csv,
                 teardown_log, rpc_issued, sleeps, net_vars, server_vars>>

\* do_passes after the last pass: the sampler is stopped when collecting
do_passes_end ==
  /\ dpc = "loop"
  /\ pass_num > num_passes
  /\ IF collect_iostat
     THEN \E out \in communicate_outputs :
            LET stopped == stop_iostat_subprocess(out)
            IN  /\ procs' = stopped.procs
                /\ iostat_csv' = stopped.iostat_csv
                /\ dpc' = IF stopped.raised THEN "exit" ELSE "teardown"
                /\ exit_cause' = IF stopped.raised THEN "error" ELSE exit_cause
     ELSE /\ dpc' = "teardown"
          /\ UNCHANGED <<procs, iostat_csv, exit_cause>>
  /\ UNCHANGED <<server_ip, num_steps, num_passes, collect_iostat, pass_num, step,
                 checkpoint_result_dicts, iostat_process, atexit_registered,
                 results_csv, teardown_log, rpc_issued, sleeps, net_vars, server_vars>>

\* client.teardown() called by main; an error it raises is uncaught
main_teardown ==
  /\ dpc = "teardown"
  /\ \E out \in communicate_outputs :
       LET td == teardown(out)
       IN  /\ procs' = td.procs
           /\ iostat_csv' = td.iostat_csv
           /\ results_csv' = td.results_csv
           /\ teardown_log' = Append(teardown_log, td.entry)
           /\ exit_cause' = IF td.raised THEN "error" ELSE "normal"
  /\ dpc' = "exit"
  /\ UNCHANGED <<server_ip, num_steps, num_passes, collect_iostat, pass_num, step,
                 checkpoint_result_dicts, iostat_process, atexit_registered,
                 rpc_issued, sleeps, net_vars, server_vars>>

\* Ctrl+C while main is between setup and its return: except
\* KeyboardInterrupt, exit(1)
KeyboardInterrupt ==
  /\ dpc \in {"do_passes", "loop", "rpc", "sleep", "teardown"}
  /\ dpc' = "exit"
  /\ exit_cause' = "interrupt"
  /\ UNCHANGED <<server_ip, num_steps, num_passes, collect_iostat, pass_num, step,
                 checkpoint_result_dicts, iostat_process, procs,
                 atexit_registered, results_csv, iostat_csv, teardown_log,
                 rpc_issued, sleeps, net_vars, server_vars>>

\* interpreter exit: the hook registered by setup runs teardown(); what it
\* raises is printed and the process ends
atexit_teardown ==
  /\ dpc = "exit"
  /\ atexit_registered
  /\ \E out \in communicate_outputs :
       LET td == teardown(out)
       IN  /\ procs' = td.procs
           /\ iostat_csv' = td.iostat_csv
           /\ results_csv' = td.results_csv
           /\ teardown_log' = Append(teardown_log, td.entry)
  /\ dpc' = "done"
  /\ UNCHANGED <<server_ip, num_steps, num_passes, collect_iostat, pass_num, step,
                 checkpoint_result_dicts, iostat_process, atexit_registered,
                 exit_cause, rpc_issued, sleeps, net_vars, server_vars>>

\* ------------------------------------------------------ a second client
\* any other XML-RPC client may call do_checkpoint(step) on port 8080
other_client_call ==
  /\ other_calls < MaxOtherCalls
  /\ reply["other"] = NoReply
  /\ serving.client # "other"
  /\ \A req \in pending : req.client # "other"
  /\ \E s \in OtherSteps : pending' = pending \cup {[client |-> "other", step |-> s]}
  /\ other_calls' = other_calls + 1
  /\ UNCHANGED <<reply, driver_vars, server_vars>>

other_client_return ==
  /\ reply["other"] # NoReply
  /\ reply' = [reply EXCEPT !["other"] = NoReply]
  /\ UNCHANGED <<pending, other_calls, driver_vars, server_vars>>

\* ---------------------------------------------------- coordinator group
\* a Barrier that returns at once, whatever the other ranks do
barrier_absent(r) == TRUE

\* comm.Barrier() returns in rank r once every rank of the group has entered
\* as many barriers as r has
barrier_complete(r) == \A q \in Ranks : entered[q] >= entered[r]

\* time.time() - start_time (lines 124, 127): every measurement yields a
\* value of its own, named by the rank and the position it is appended at
elapsed(r, times) == [rank |-> r, measurement |-> Len(times) + 1]

\* result_dict with checkpoint_time read from the head of the series
result_dict_first(times, s) ==
  [kind |-> "record",
   checkpoint_time |-> times[1],
   step |-> s,
   comm_size |-> comm_size]

\* result_dict of do_checkpoint on rank 0
result_dict(times, s) ==
  [kind |-> "record",
   checkpoint_time |-> times[Len(times)],
   step |-> s,
   comm_size |-> comm_size]

\* serve_forever dispatches one request to do_checkpoint(cur_step) on rank 0:
\* lines 111-119, up to the entry into the first Barrier
serve ==
  /\ rank_pc[0] = "idle"
  /\ \E req \in pending :
       /\ pending' = pending \ {req}
       /\ serving' = req
       /\ rank_step' = [rank_step EXCEPT ![0] = req.step]
       /\ bcast_values' = Append(bcast_values, req.step)
  /\ bcast_read' = [bcast_read EXCEPT ![0] = @ + 1]
  /\ entered' = [entered EXCEPT ![0] = @ + 1]
  /\ rank_pc' = [rank_pc EXCEPT ![0] = "barrier1"]
  /\ cycle_calls' = [r \in Ranks |-> <<>>]
  /\ last_bcast' = [started |-> TRUE,
                    after_post_barrier |->
                      \A r \in Ranks : rank_pc[r] \notin {"barrier1", "checkpointing"}]
  /\ UNCHANGED <<comm_size, checkpoint_times, raises,
                 last_reply, reply, other_calls, driver_vars>>

\* a rank other than 0, looping in main: do_checkpoint() lines 111-119, the
\* broadcast delivers the next value and the rank enters the first Barrier
bcast_receive(r) ==
  /\ r # 0
  /\ rank_pc[r] = "wait_bcast"
  /\ bcast_read[r] < Len(bcast_values)
  /\ rank_step' = [rank_step EXCEPT ![r] = bcast_values[bcast_read[r] + 1]]
  /\ bcast_read' = [bcast_read EXCEPT ![r] = @ + 1]
  /\ entered' = [entered EXCEPT ![r] = @ + 1]
  /\ rank_pc' = [rank_pc EXCEPT ![r] = "barrier1"]
  /\ UNCHANGED <<comm_size, bcast_values, checkpoint_times, serving, raises, cycle_calls, last_bcast, last_reply, net_vars, driver_vars>>

\* lines 119-125: the first Barrier returns, the clock is read and
\* checkpoint(1, step) is invoked
checkpoint_begin(r) ==
  /\ rank_pc[r] = "barrier1"
  /\ barrier_complete(r)
  /\ cycle_calls' = [cycle_calls EXCEPT ![r] = Append(@, <<1, rank_step[r]>>)]
  /\ rank_pc' = [rank_pc EXCEPT ![r] = "checkpointing"]
  /\ UNCHANGED <<comm_size, rank_step, entered, bcast_values, bcast_read,
                 checkpoint_times, serving, raises,
                 last_bcast, last_reply, net_vars,
                 driver_vars>>

\* lines 125-126: checkpoint(1, step) returns and the rank enters the second
\* Barrier
checkpoint_return(r) ==
  /\ rank_pc[r] = "checkpointing"
  /\ entered' = [entered EXCEPT ![r] = @ + 1]
  /\ rank_pc' = [rank_pc EXCEPT ![r] = "barrier2"]
  /\ UNCHANGED <<comm_size, rank_step, bcast_values, bcast_read, checkpoint_times, serving, raises, cycle_calls,
                 last_bcast, last_reply, net_vars,
                 driver_vars>>

\* do_checkpoint with the call of line 125 wrapped in try/except: the
\* exception is swallowed and the call is answered with a record
checkpoint_raise_swallowed ==
  /\ rank_pc[0] = "checkpointing"
  /\ raises < MaxRaises
  /\ raises' = raises + 1
  /\ checkpoint_times' =
       [checkpoint_times EXCEPT ![0] = Append(@, elapsed(0, @))]
  /\ reply' = [reply EXCEPT ![serving.client] =
                 result_dict(checkpoint_times'[0], rank_step[0])]
  /\ last_reply' = [kind |-> "record", step |-> serving.step,
                    comm_size |-> comm_size, calls |-> cycle_calls]
  /\ serving' = NoRequest
  /\ rank_pc' = [rank_pc EXCEPT ![0] = "idle"]
  /\ UNCHANGED <<comm_size, rank_step, entered, bcast_values, bcast_read,
                 cycle_calls, last_bcast, pending, other_calls,
                 driver_vars>>

\* line 125 raises on rank 0: the exception leaves do_checkpoint and the
\* XML-RPC server answers the call with a Fault, then serves on
checkpoint_raise_control ==
  /\ rank_pc[0] = "checkpointing"
  /\ raises < MaxRaises
  /\ raises' = raises + 1
  /\ reply' = [reply EXCEPT ![serving.client] = [kind |-> "fault"]]
  /\ last_reply' = [kind |-> "fault", step |-> serving.step,
                    comm_size |-> comm_size, calls |-> cycle_calls]
  /\ serving' = NoRequest
  /\ rank_pc' = [rank_pc EXCEPT ![0] = "idle"]
  /\ UNCHANGED <<comm_size, rank_step, entered, bcast_values, bcast_read,
                 checkpoint_times, cycle_calls,
                 last_bcast, pending, other_calls,
                 driver_vars>>

\* line 125 raises on another rank: the exception leaves the while loop of
\* main and the process ends
checkpoint_raise_worker(r) ==
  /\ r # 0
  /\ rank_pc[r] = "checkpointing"
  /\ raises < MaxRaises
  /\ raises' = raises + 1
  /\ rank_pc' = [rank_pc EXCEPT ![r] = "exited"]
  /\ UNCHANGED <<comm_size, rank_step, entered, bcast_values, bcast_read,
                 checkpoint_times, serving, cycle_calls,
                 last_bcast, last_reply, net_vars,
                 driver_vars>>

\* lines 126-147 on rank 0: the second Barrier returns, the elapsed time is
\* appended and the result record is returned to the caller
checkpoint_reply ==
  /\ rank_pc[0] = "barrier2"
  /\ barrier_complete(0)
  /\ checkpoint_times' =
       [checkpoint_times EXCEPT ![0] = Append(@, elapsed(0, @))]
  /\ reply' = [reply EXCEPT ![serving.client] =
                 result_dict(checkpoint_times'[0], rank_step[0])]
  /\ last_reply' = [kind |-> "record", step |-> serving.step,
                    comm_size |-> reply'[serving.client].comm_size,
                    calls |-> cycle_calls]
  /\ serving' = NoRequest
  /\ rank_pc' = [rank_pc EXCEPT ![0] = "idle"]
  /\ UNCHANGED <<comm_size, rank_step, entered, bcast_values, bcast_read,
                 raises, cycle_calls, last_bcast, pending,
                 other_calls, driver_vars>>

\* main without its while True: the rank calls do_checkpoint once and ends
checkpoint_once(r) ==
  /\ r # 0
  /\ rank_pc[r] = "barrier2"
  /\ barrier_complete(r)
  /\ checkpoint_times' =
       [checkpoint_times EXCEPT ![r] = Append(@, elapsed(r, @))]
  /\ rank_pc' = [rank_pc EXCEPT ![r] = "exited"]
  /\ UNCHANGED <<comm_size, rank_step, entered, bcast_values, bcast_read,
                 serving, raises, cycle_calls,
                 last_bcast, last_reply, net_vars,
                 driver_vars>>

\* lines 126-127 on another rank: the second Barrier returns, the elapsed
\* time is appended, do_checkpoint returns None and main loops
checkpoint_loop(r) ==
  /\ r # 0
  /\ rank_pc[r] = "barrier2"
  /\ barrier_complete(r)
  /\ checkpoint_times' =
       [checkpoint_times EXCEPT ![r] = Append(@, elapsed(r, @))]
  /\ rank_pc' = [rank_pc EXCEPT ![r] = "wait_bcast"]
  /\ UNCHANGED <<comm_size, rank_step, entered, bcast_values, bcast_read,
                 serving, raises, cycle_calls,
                 last_bcast, last_reply, net_vars,
                 driver_vars>>

\* --------------------------------------------------------- specification
\* the state after parse_args in the driver and, on every rank, after
\* DLIOCheckpointRPCServer.__init__ (the fields DLIOCheckpointRPCClient.__init__
\* sets later already hold their initial values)
Constructed ==
  /\ dpc = "validate"
  /\ pass_num = 0
  /\ step = 0
  /\ checkpoint_result_dicts = <<>>
  /\ iostat_process = 0
  /\ procs = <<>>
  /\ atexit_registered = FALSE
  /\ exit_cause = "none"
  /\ results_csv = NoResultsFile
  /\ iostat_csv = NoFile
  /\ teardown_log = <<>>
  /\ rpc_issued = 0
  /\ sleeps = 0
  /\ pending = {}
  /\ reply = [c \in Clients |-> NoReply]
  /\ other_calls = 0
  /\ rank_pc = [r \in Ranks |-> IF r = 0 THEN "idle" ELSE "wait_bcast"]
  /\ rank_step = [r \in Ranks |-> 0]
  /\ entered = [r \in Ranks |-> 0]
  /\ bcast_values = <<>>
  /\ bcast_read = [r \in Ranks |-> 0]
  /\ checkpoint_times = [r \in Ranks |-> <<>>]
  /\ serving = NoRequest
  /\ raises = 0
  /\ cycle_calls = [r \in Ranks |-> <<>>]
  /\ last_bcast = [started |-> FALSE, after_post_barrier |-> TRUE]
  /\ last_reply = [kind |-> "none", step |-> 0, comm_size |-> 0,
                   calls |-> [r \in Ranks |-> <<>>]]

\* one driver against a group of 1..MaxRanks ranks, any configuration
Init ==
  /\ server_ip \in ServerIps
  /\ num_steps \in 0..MaxSteps
  /\ num_passes \in 0..MaxPasses
  /\ collect_iostat \in BOOLEAN
  /\ comm_size \in 1..MaxRanks
  /\ Constructed

\* the driver of a one-pass run without sampling, next to a second client
InitClients ==
  /\ server_ip = LOCALHOST
  /\ num_steps \in 1..MaxSteps
  /\ num_passes = 1
  /\ collect_iostat = FALSE
  /\ comm_size \in 1..MaxRanks
  /\ Constructed

DriverNext ==
  \/ validate_args
  \/ setup
  \/ do_passes_begin
  \/ do_checkpoint_call
  \/ do_checkpoint_return
  \/ do_checkpoint_fault
  \/ do_checkpoint_oserror
  \/ sleep
  \/ next_pass
  \/ do_passes_end
  \/ main_teardown
  \/ KeyboardInterrupt
  \/ atexit_teardown

GroupNext ==
  \/ serve
  \/ \E r \in Ranks : bcast_receive(r)
  \/ \E r \in Ranks : checkpoint_begin(r)
  \/ \E r \in Ranks : checkpoint_return(r)
  \/ checkpoint_raise_control
  \/ \E r \in Ranks : checkpoint_raise_worker(r)
  \/ checkpoint_reply
  \/ \E r \in Ranks : checkpoint_loop(r)

Next == DriverNext \/ GroupNext

NextClients ==
  \/ Next
  \/ other_client_call
  \/ other_client_return

\* the driver is the only client of the coordinator
Spec == Init /\ [][Next]_vars

\* a second client calls the coordinator concurrently
SpecClients == InitClients /\ [][NextClients]_vars

\* a run on the local host in which no checkpoint call raises, the transport
\* does not fail and nobody interrupts the driver
InitLive ==
  /\ server_ip = LOCALHOST
  /\ num_steps \in 1..MaxSteps
  /\ num_passes \in 1..MaxPasses
  /\ collect_iostat \in BOOLEAN
  /\ comm_size \in 1..MaxRanks
  /\ Constructed

DriverLive ==
  \/ validate_args
  \/ setup
  \/ do_passes_begin
  \/ do_checkpoint_call
  \/ do_checkpoint_return
  \/ sleep
  \/ next_pass
  \/ do_passes_end
  \/ main_teardown
  \/ atexit_teardown

\* the steps of the process of rank r
RankLive(r) ==
  \/ r = 0 /\ serve
  \/ bcast_receive(r)
  \/ checkpoint_begin(r)
  \/ checkpoint_return(r)
  \/ r = 0 /\ checkpoint_reply
  \/ checkpoint_loop(r)

NextLive == DriverLive \/ \E r \in Ranks : RankLive(r)

\* every process is scheduled again and again: the driver and each rank
\* are operating-system processes of their own
SpecLive ==
  /\ InitLive
  /\ [][NextLive]_vars
  /\ WF_vars(DriverLive)
  /\ \A r \in 0..(MaxRanks - 1) : WF_vars(r \in Ranks /\ RankLive(r))

\* ---------------------------------------------------------------- claims
\* (pass_num, step) of two records in strictly increasing lexicographic order
lex_less(a, b) ==
  \/ a.pass_num < b.pass_num
  \/ a.pass_num = b.pass_num /\ a.step < b.step

\* the driver has left the loops of do_passes
passes_finished ==
  dpc \in {"loop", "teardown", "exit", "done"} /\ pass_num > num_passes

\* the number of operations a run is configured for
total_operations == num_steps * num_passes

\* a remote call of the driver raised and ended main
remote_call_failed ==
  dpc \in {"exit", "done"} /\ exit_cause = "error" /\ pass_num <= num_passes

\* a rank has received the step of a call and not yet finished its
\* checkpoint call for it
busy(r) == rank_pc[r] \in {"barrier1", "checkpointing"}

\* C1: for every call do_checkpoint(s) answered with a result record, each
\* rank of the group invoked checkpoint exactly once, with epoch 1 and step
\* s, between the receipt of the call and the reply, and the record carries
\* comm_size = n.
C1_AllRanksCheckpointBeforeReply ==
  last_reply.kind = "record" =>
    /\ \A r \in Ranks : last_reply.calls[r] = << <<1, last_reply.step>> >>
    /\ last_reply.comm_size = comm_size

\* C2: once the driver has run all its passes (every remote call having
\* succeeded), the result log holds exactly num_steps * num_passes records
\* and no two of them have the same (pass_num, step).
C2_CompleteRunLog ==
  passes_finished =>
    /\ Len(checkpoint_result_dicts) = total_operations
    /\ \A i, j \in 1..Len(checkpoint_result_dicts) :
         i # j =>
           <<checkpoint_result_dicts[i].pass_num, checkpoint_result_dicts[i].step>>
             # <<checkpoint_result_dicts[j].pass_num, checkpoint_result_dicts[j].step>>

C2_Witness ==
  /\ dpc = "done"
  /\ exit_cause = "normal"
  /\ num_steps = 3
  /\ num_passes = 2
  /\ Len(checkpoint_result_dicts) = 6

\* C3: in every reachable state the result log is in strictly increasing
\* (pass_num, step) order, and its i-th record is the i-th pair of the
\* enumeration pass 1..num_passes, step 1..num_steps.
C3_LogInLexOrder ==
  /\ \A i, j \in 1..Len(checkpoint_result_dicts) :
       i < j => lex_less(checkpoint_result_dicts[i], checkpoint_result_dicts[j])
  /\ \A i \in 1..Len(checkpoint_result_dicts) :
       /\ checkpoint_result_dicts[i].pass_num = ((i - 1) \div num_steps) + 1
       /\ checkpoint_result_dicts[i].step = ((i - 1) % num_steps) + 1
       /\ checkpoint_result_dicts[i].pass_num \in 1..num_passes

C3_Witness ==
  /\ Len(checkpoint_result_dicts) = 6
  /\ [i \in 1..6 |-> checkpoint_result_dicts[i].pass_num] = <<1, 1, 1, 2, 2, 2>>
  /\ [i \in 1..6 |-> checkpoint_result_dicts[i].step] = <<1, 2, 3, 1, 2, 3>>

\* C4: when the driver process has exited after setup, teardown() has
\* executed exactly once, whatever the exit path.
C4_TeardownExactlyOnce ==
  dpc = "done" => Len(teardown_log) = 1

\* C5: a run interrupted after N completed operations, 0 < N < total, has
\* written a results table with exactly N data rows when the process ends.
C5_InterruptedRunWritesNRows ==
  ( /\ dpc = "done"
    /\ exit_cause = "interrupt"
    /\ 0 < Len(checkpoint_result_dicts)
    /\ Len(checkpoint_result_dicts) < total_operations )
  => /\ results_csv.exists
     /\ results_csv.header
     /\ results_csv.rows = checkpoint_result_dicts

\* C6: when teardown gets to persist an empty result log, persisting raises
\* an error and no results table file exists, not even an empty one.
C6_EmptyLogCreatesNoFile ==
  \A i \in 1..Len(teardown_log) :
    (teardown_log[i].log_len = 0 /\ teardown_log[i].write_attempted) =>
      /\ teardown_log[i].write_raised
      /\ ~results_csv.exists

\* C7: calls are served one at a time: the ranks that are working on a call
\* are all working on the same call, and the broadcast of a call started
\* only after the post-checkpoint barrier of the call before it had
\* returned, every rank having arrived at it.
C7_OneCallAtATime ==
  /\ \A r, q \in Ranks : (busy(r) /\ busy(q)) => bcast_read[r] = bcast_read[q]
  /\ last_bcast.started => last_bcast.after_post_barrier

\* C8: when a remote call of the driver has failed, the failed call left no
\* record, no remote call was issued after it, and once the process has
\* ended the results table holds the records of all the calls completed
\* before it (when there are any).
C8_FailedCallAbortsRun ==
  remote_call_failed =>
    /\ Len(checkpoint_result_dicts) = rpc_issued - 1
    /\ rpc_issued = (pass_num - 1) * num_steps + step
    /\ (dpc = "done" /\ Len(checkpoint_result_dicts) > 0) =>
         /\ results_csv.exists
         /\ results_csv.rows = checkpoint_result_dicts

\* C9: the sampling process is started exactly once when collection is
\* enabled and never otherwise, at most one is running at any time, and
\* none is left running when the driver has exited.
C9_OneSamplingProcess ==
  /\ Len(procs) <= (IF collect_iostat THEN 1 ELSE 0)
  /\ Cardinality({p \in 1..Len(procs) : procs[p].state = "running"}) <= 1
  /\ dpc = "done" =>
       /\ Len(procs) = (IF collect_iostat THEN 1 ELSE 0)
       /\ \A p \in 1..Len(procs) : procs[p].state = "exited"

\* the lines of an output that begin with "Device", and its other
\* non-empty lines
device_lines(out) == SelectSeq(out, LAMBDA l : startswith_Device(l))
data_lines(out) == SelectSeq(out, LAMBDA l : l # <<>> /\ ~startswith_Device(l))

\* C10: for an output with a line beginning with "Device", the table written
\* by stop has as first row the tokens of the first such line, then one row
\* per other non-empty line in output order, every row as wide as the
\* header.
C10_IostatTableShape ==
  (iostat_csv.exists /\ device_lines(procs[iostat_process].out) # <<>>) =>
    LET out == procs[iostat_process].out
        rows == iostat_csv.rows
    IN  /\ Len(rows) = 1 + Len(data_lines(out))
        /\ rows[1] = split(device_lines(out)[1])
        /\ \A i \in 2..Len(rows) :
             /\ rows[i] = split(data_lines(out)[i - 1])
             /\ Len(rows[i]) = Len(rows[1])

\* the status the driver process ends with: 0 after a normal return of main,
\* 1 after exit(1) (lines 48 and 176) and after an uncaught exception
exit_status == IF exit_cause = "normal" THEN 0 ELSE 1

\* C11: when I/O-metrics collection is requested and the server address is
\* not 127.0.0.1, the driver never gets past validate_args: it ends with a
\* non-zero status, no sampling process was started and no remote call was
\* issued.
C11_RemoteIostatRejected ==
  (collect_iostat /\ server_ip # LOCALHOST) =>
    /\ dpc \in {"validate", "rejected"}
    /\ dpc = "rejected" => exit_status # 0
    /\ procs = <<>>
    /\ iostat_process = 0
    /\ rpc_issued = 0
    /\ pending = {}

C11_Witness ==
  /\ dpc = "rejected"
  /\ collect_iostat
  /\ server_ip # LOCALHOST
  /\ num_steps > 0
  /\ num_passes > 0

\* C12: no rank starts early: while a rank is inside the checkpoint call of
\* its k-th cycle, every rank of the group has received the k-th broadcast
\* step and entered the pre-checkpoint barrier of that cycle.
C12_NoRankStartsEarly ==
  \A r, q \in Ranks :
    rank_pc[r] = "checkpointing" => bcast_read[q] >= bcast_read[r]

\* rank q has returned from the checkpoint call of its k-th cycle (a rank
\* other than 0 never skips a cycle; rank 0 is only asked about the cycle
\* it is in)
finished_call(q, k) ==
  \/ q # 0 /\ bcast_read[q] > k
  \/ bcast_read[q] = k /\ rank_pc[q] \in {"barrier2", "wait_bcast"}

\* C13: the elapsed time of a call ends after the checkpoint call of every
\* rank: whenever rank 0 takes the end time and appends the elapsed time of
\* its k-th cycle, every rank of the group has returned from the checkpoint
\* call of its k-th cycle.
C13_ElapsedCoversEveryRank ==
  [][ Len(checkpoint_times'[0]) > Len(checkpoint_times[0]) =>
        \A q \in Ranks : finished_call(q, bcast_read[0]) ]_vars

\* C14: when the checkpoint mechanism raises on rank 0 the exception leaves
\* do_checkpoint: the step that ends the call appends no elapsed time and
\* answers the caller with a fault, never a record, and checkpoint was
\* invoked once for that call on rank 0, not again.
C14_RaisePropagates ==
  /\ [][ (rank_pc[0] = "checkpointing" /\ rank_pc'[0] = "idle") =>
           /\ checkpoint_times' = checkpoint_times
           /\ reply'[serving.client] = [kind |-> "fault"]
           /\ cycle_calls'[0] = << <<1, serving.step>> >> ]_vars
  /\ [](last_reply.kind = "fault" => Len(last_reply.calls[0]) = 1)

C14_Witness ==
  /\ comm_size = 2
  /\ last_reply.kind = "fault"
  /\ reply["driver"] = [kind |-> "fault"]
  /\ Len(checkpoint_result_dicts) = 1
  /\ Len(checkpoint_times[0]) = 1

\* a rank other than 0 has left the Barrier of line 126 of its k-th cycle
passed_post_barrier(r, k) ==
  \/ bcast_read[r] > k
  \/ bcast_read[r] = k /\ rank_pc[r] = "wait_bcast"

\* rank 0 is back in serve_forever after answering its k-th request with a
\* result record
returned_record_for(k) ==
  rank_pc[0] = "idle" /\ bcast_read[0] = k /\ last_reply.kind = "record"

\* C15: when a rank has left its loop inside its k-th cycle, and so never
\* arrives at the post-checkpoint barrier of that cycle, no other rank has
\* left that barrier and rank 0 has not answered the k-th request with a
\* record.
C15_MissingRankHangsGroup ==
  \A q \in Ranks :
    rank_pc[q] = "exited" =>
      /\ \A r \in Ranks \ {0, q} : ~passed_post_barrier(r, bcast_read[q])
      /\ ~returned_record_for(bcast_read[q])

\* C16: every call completed on rank 0 appends exactly one elapsed time to
\* checkpoint_times, nothing else changes the series of rank 0, and the
\* checkpoint_time of the returned record is the value just appended, which
\* no earlier call recorded, also when the step was requested before.
C16_FreshElapsedTime ==
  /\ [][ (rank_pc[0] = "barrier2" /\ rank_pc'[0] = "idle") =>
           LET before == checkpoint_times[0]
               after == checkpoint_times'[0]
               record == reply'[serving.client]
           IN  /\ Len(after) = Len(before) + 1
               /\ SubSeq(after, 1, Len(before)) = before
               /\ record.kind = "record"
               /\ record.checkpoint_time = after[Len(after)]
               /\ \A i \in 1..Len(before) :
                    before[i] # record.checkpoint_time ]_vars
  /\ [][ checkpoint_times'[0] # checkpoint_times[0] =>
           (rank_pc[0] = "barrier2" /\ rank_pc'[0] = "idle") ]_vars

\* step 1 of the second pass is answered: the step was requested before
C16_Witness ==
  /\ comm_size = 2
  /\ num_steps = 3
  /\ Len(bcast_values) = 4
  /\ bcast_values[1] = bcast_values[4]
  /\ Len(checkpoint_times[0]) = 4
  /\ last_reply.kind = "record"
  /\ rank_pc[0] = "idle"

\* the positions a rank other than 0 moves through: WaitForBroadcast,
\* Barrier-Enter, Checkpointing, Barrier-Exit, and the end of the process
\* when its checkpoint call raised
WorkerCycle ==
  { <<"wait_bcast", "barrier1">>, <<"barrier1", "checkpointing">>,
    <<"checkpointing", "barrier2">>, <<"barrier2", "wait_bcast">>,
    <<"checkpointing", "exited">> }

\* C17: a rank other than 0 only moves along WaitForBroadcast ->
\* Barrier-Enter -> Checkpointing -> Barrier-Exit -> WaitForBroadcast or
\* ends its process; a request is taken from the listen queue and a reply is
\* produced only in steps of rank 0, and rank 0 is idle after each reply.
C17_RankCycle ==
  [][ /\ \A r \in Ranks \ {0} :
           rank_pc'[r] # rank_pc[r] => <<rank_pc[r], rank_pc'[r]>> \in WorkerCycle
      /\ (pending' # pending /\ pending' \subseteq pending) =>
           /\ rank_pc[0] = "idle" /\ rank_pc'[0] # "idle"
           /\ \A r \in Ranks \ {0} : rank_pc'[r] = rank_pc[r]
      /\ (\E c \in Clients : reply'[c] # reply[c] /\ reply'[c] # NoReply) =>
           /\ rank_pc[0] # "idle" /\ rank_pc'[0] = "idle"
           /\ \A r \in Ranks \ {0} : rank_pc'[r] = rank_pc[r] ]_vars

\* a rank other than 0 is waiting for its third broadcast
C17_Witness ==
  /\ comm_size = 2
  /\ rank_pc[1] = "wait_bcast"
  /\ bcast_read[1] = 2
  /\ Len(checkpoint_times[1]) = 2
  /\ rank_pc[0] = "idle"

\* C18: every remote call of the driver is followed by a sleep before the
\* next one is issued, and a request is issued only when the reply of the
\* previous one was received and recorded: at the moment the n-th request
\* is issued, n - 1 records are in the log and n - 1 sleeps have returned,
\* and the sleep follows the recording.
C18_PacedCalls ==
  /\ [][ rpc_issued' # rpc_issued =>
           /\ rpc_issued' = rpc_issued + 1
           /\ Len(checkpoint_result_dicts) = rpc_issued
           /\ sleeps = rpc_issued
           /\ reply["driver"] = NoReply ]_vars
  /\ [][ sleeps' # sleeps =>
           /\ sleeps' = sleeps + 1
           /\ Len(checkpoint_result_dicts) = sleeps' ]_vars

\* the fourth request of a run, the first of the second pass, is under way
C18_Witness ==
  /\ dpc = "rpc"
  /\ rpc_issued = 4
  /\ sleeps = 3
  /\ pass_num = 2
  /\ step = 1

\* the cycles rank r has completed (it passed line 127), and the checkpoint
\* calls it has returned from when no call has raised
cycles_completed(r) == Len(checkpoint_times[r])
calls_returned(r) ==
  IF rank_pc[r] \in {"barrier1", "checkpointing"}
  THEN bcast_read[r] - 1 ELSE bcast_read[r]

\* C19: while no rank has failed, the numbers of cycles completed by two
\* ranks differ by at most one, and a rank is inside the checkpoint call of
\* cycle k+1 only when every rank has returned from its checkpoint call of
\* cycle k.
C19_Lockstep ==
  raises = 0 =>
    /\ \A r, q \in Ranks :
         cycles_completed(r) - cycles_completed(q) \in {-1, 0, 1}
    /\ \A r, q \in Ranks :
         rank_pc[r] = "checkpointing" => calls_returned(q) >= bcast_read[r] - 1

\* rank 0 is inside the checkpoint call of the second cycle while rank 1,
\* which has completed the first, has not yet left the barrier before it
C19_Witness ==
  /\ raises = 0
  /\ comm_size = 2
  /\ rank_pc[0] = "checkpointing"
  /\ bcast_read[0] = 2
  /\ rank_pc[1] = "barrier1"
  /\ calls_returned(1) = 1
  /\ cycles_completed(1) = 1

\* C20: when every rank stays alive and every checkpoint call returns, a
\* request accepted by rank 0 is eventually answered, and the driver run
\* eventually ends with teardown executed and the results table written
\* with the records of the log.
C20_Liveness ==
  /\ (serving # NoRequest) ~> (reply["driver"] # NoReply)
  /\ <>( /\ dpc = "done"
         /\ Len(teardown_log) >= 1
         /\ results_csv.exists
         /\ results_csv.header
         /\ results_csv.rows = checkpoint_result_dicts )

====
